---- MODULE Spec2Model ----
(***************************************************************************)
(* Model of the magika Rust command line pipeline (rust/cli/src/main.rs),  *)
(* of the library post-classifier (rust/lib/src/file.rs) and of the        *)
(* feature extractor and session (rust/lib/src/input.rs, session.rs).      *)
(*                                                                         *)
(* The pipeline is three kinds of tokio tasks that share two bounded       *)
(* channels: the producer extract_features, num_tasks workers infer_batch  *)
(* and the collector loop of main.  An action is the code a task runs      *)
(* between two suspension points (an await on a channel or on the run of   *)
(* the model).  A call of a library function is one action for each part   *)
(* of it that another function of the library also uses.                   *)
(*                                                                         *)
(* f32 scores are modelled by the integers 0..MaxScore, which keep their   *)
(* order; MaxScore stands for 1.0.  NaN scores are not modelled.           *)
(***************************************************************************)
EXTENDS Integers, Sequences, FiniteSets, TLC

\* ------------------------------------------------------------------ bounds

\* Largest number of paths on the command line (flags.path).
MaxPaths == 2

\* Largest --batch-size.
MaxBatchSize == 2

\* Largest --num-tasks.
MaxNumTasks == 2

\* Number of entries read_dir returns for a directory given on the command line.
NumChildren == 2

\* Score levels are 0..MaxScore; MaxScore is the score 1.0.
MaxScore == 2

\* ------------------------------------------------------------ the catalog

\* The labels of the model (the enum Label of the generated model.rs), as the
\* row indices 0..NUM_LABELS-1 of the output tensor.
Labels == {0, 1, 2}

\* The content types of the catalog (the enum ContentType of content.rs): the
\* three the rules use, and two others.
ContentTypes == {"empty", "unknown", "txt", "a", "b"}

\* Label::content_type: the content type of a label of the model.
LabelContentType(l) == CASE l = 0 -> "txt" [] l = 1 -> "a" [] l = 2 -> "b"

Scores == 0 .. MaxScore

\* The rows a model can output: one score per label.
ScoreRows == [Labels -> Scores]

\* ----------------------------------------------------- Output::convert

\* The loop `if scores[best].max(x) == x { best = i; }` over i = 0..n-1,
\* started with best = 0: BestFrom(row, best, i) is the value of best after
\* the iterations i, i+1, ... up to the last label.
RECURSIVE BestFrom(_, _, _)
BestFrom(row, best, i) ==
    IF i \notin Labels
    THEN best
    ELSE LET x == row[i]
             m == IF row[best] >= x THEN row[best] ELSE x
         IN  BestFrom(row, IF m = x THEN i ELSE best, i + 1)

\* The same loop with the replacement made only on a strictly greater score.
BestStrict(row) ==
    CHOOSE b \in Labels :
        /\ \A i \in Labels : row[i] <= row[b]
        /\ \A i \in Labels : row[i] = row[b] => b <= i

Best(row) == BestFrom(row, 0, 0)

\* Output::convert for one row: the label and its score.
OutputConvert(row) ==
    [tag |-> "Output", label |-> Best(row), score |-> row[Best(row)]]

\* --------------------------------------------------------- the file system

\* Paths are numbers, ordered as PathBuf orders them.  The paths of the command
\* line are 1..n; the entries of the directory p are 10*p + 1 .. 10*p + NumChildren.

\* What the producer can find out about a path, in the order of its tests.
\*   stat_err      metadata() fails
\*   dir           a directory (read_dir succeeds)
\*   read_dir_err  a directory whose read_dir fails
\*   symlink       a symbolic link (seen only with --no-dereference)
\*   other         neither directory, link nor regular file
\*   empty         a regular file of length 0
\*   open_err      a regular file that File::open fails to open
\*   read_err      a regular file whose length() or read_at fails in extract_async
\*   ruled         a regular file the extractor rules on without the model
\*   dl            a regular file the extractor returns Features for
\* The standard input (path "-") skips the stat and the open and is one of
\* read_err, ruled or dl.
FileKinds ==
    {"stat_err", "dir", "read_dir_err", "symlink", "other", "empty", "open_err",
     "read_err", "ruled", "dl"}

\* The Features of the file at path p (its content is fixed by its name).
Feat(p) == p % 2

\* The model: a deterministic function from a feature row to a score row.
ModelScores(f) ==
    IF f = 0 THEN [l \in Labels |-> IF l = 1 THEN MaxScore ELSE 0]
    ELSE [l \in Labels |-> IF l = 0 THEN 0 ELSE 1]

\* ------------------------------------------------------------- responses

NoLabel == 0 - 1

CliOutput(tag) == [tag |-> tag, label |-> NoLabel, score |-> MaxScore]

\* The CliOutput the producer builds itself for a path of the given kind
\* (the ruling of the extractor is an Output with the score 1.0).
DirectOutput(kind) ==
    CASE kind = "stat_err" -> CliOutput("Error")
      [] kind = "open_err" -> CliOutput("Error")
      [] kind = "dir" -> CliOutput("Directory")
      [] kind = "read_dir_err" -> CliOutput("Directory")
      [] kind = "symlink" -> CliOutput("Symlink")
      [] kind = "other" -> CliOutput("Label")
      [] kind = "empty" -> CliOutput("Empty")
      [] kind = "ruled" -> [tag |-> "Output", label |-> 0, score |-> MaxScore]

\* struct Batch { paths, features }; NoBatch when a worker holds none.
Batch(ps, fs) == [paths |-> ps, features |-> fs]

NoBatch == Batch(<<>>, <<>>)

Response(o, p, dl, out) == [order |-> o, path |-> p, is_dl |-> dl, output |-> out]

\* The messages of the result channel: Ok(response) and Err(e).
Ok(resp) == [ok |-> TRUE, resp |-> resp]

Err == [ok |-> FALSE, resp |-> Response(NoLabel, NoLabel, FALSE, CliOutput("Error"))]

\* No library call is modelled, and nothing returned, in the other specifications.
NoCall == [fn |-> "none"]

NoRet == [tag |-> "none"]

\* ------------------------------------------------------------------ state

VARIABLES
    flags,            \* the parsed command line
    tree,             \* the paths that have entries when they are a directory
    flags_paths,      \* extract_features: the stack of paths still to visit
    order,            \* extract_features: the next order index
    paths,            \* extract_features: (order, path) of the batch being built
    features,         \* extract_features: Features of the batch being built
    ppc,              \* extract_features: where the producer task is
    pmsg,             \* extract_features: the response it is sending
    batch_channel,    \* async_channel::bounded(num_tasks)
    result_channel,   \* tokio mpsc channel(num_tasks * batch_size)
    wpc,              \* infer_batch: where each worker task is
    wbatch,           \* infer_batch: the batch whose model run it awaits
    wout,             \* infer_batch: responses of its batch still to send
    reorder,          \* main: the Reorder buffer
    responses,        \* main: the responses emitted so far, in emission order
    cpc,              \* main: where the collector loop is
    exit_code,        \* the exit code of the process, -1 while main runs
    pulled,           \* history: kind and path of every work item pulled
    failed,           \* history: the order indices of the batches whose model run failed
    config,           \* model::CONFIG: thresholds and overwrite_map
    is_text,          \* TypeInfo::is_text of every content type
    scores,           \* FileType::convert: one row of the output tensor
    file_type,        \* the FileType the library returns for it
    call,             \* a call of a library function: its name and arguments
    ret               \* what the call has done and returned so far

vars ==
    <<flags, tree, flags_paths, order, paths, features, ppc, pmsg, batch_channel,
      result_channel, wpc, wout, reorder, responses, cpc, exit_code, pulled,
      failed, config, is_text, scores, file_type, wbatch, call, ret>>

\* The state of the command line pipeline.
cli_vars ==
    <<flags, tree, flags_paths, order, paths, features, ppc, pmsg, batch_channel,
      result_channel, wpc, wout, reorder, responses, cpc, exit_code, pulled,
      failed, wbatch>>

\* The state of the library post-classifier.
lib_vars == <<config, is_text, scores, file_type>>

\* The state of a single call of a library function.
api_vars == <<call, ret>>

\* The entries read_dir returns for the directory p, which is empty when p is
\* not in tree.
Children(p) == IF p \in tree THEN {10 * p + j : j \in 1 .. NumChildren} ELSE {}

Workers == 1 .. flags.num_tasks

\* Capacity of the result channel.
ResultCapacity == flags.num_tasks * flags.batch_size

\* A batch channel with room for one batch more than there are workers.
BatchCapacityLoose == flags.num_tasks + 1

\* Capacity of the batch channel.
BatchCapacity == flags.num_tasks

\* ---------------------------------------------------------------- helpers

Last(s) == s[Len(s)]

Front(s) == SubSeq(s, 1, Len(s) - 1)

RECURSIVE Reverse(_)
Reverse(s) == IF s = <<>> THEN <<>> ELSE Append(Reverse(Tail(s)), Head(s))

Min(S) == CHOOSE x \in S : \A y \in S : x <= y

Max(S) == CHOOSE x \in S : \A y \in S : y <= x

\* The sum of a sequence of numbers.
RECURSIVE SumSeq(_)
SumSeq(s) == IF s = <<>> THEN 0 ELSE Head(s) + SumSeq(Tail(s))

\* paths.sort(): the entries in increasing order.
RECURSIVE SortPaths(_)
SortPaths(S) == IF S = {} THEN <<>> ELSE <<Min(S)>> \o SortPaths(S \ {Min(S)})

\* ---------------------------------------------------------------- Reorder

ReorderDefault == [next |-> 0, todo |-> <<>>]

ReorderIsEmpty(r) == DOMAIN r.todo = {}

\* Reorder::push without its debug assertions.
ReorderPush(r, response) ==
    [r EXCEPT !.todo =
        [k \in (DOMAIN r.todo) \cup {response.order} |->
            IF k = response.order THEN response ELSE r.todo[k]]]

\* A pop that hands out the lowest buffered response, whatever next is.
ReorderPopAny(r) ==
    IF DOMAIN r.todo = {}
    THEN [some |-> FALSE, reorder |-> r]
    ELSE LET k == Min(DOMAIN r.todo)
         IN  [some |-> TRUE, result |-> r.todo[k],
              reorder |-> [next |-> r.next + 1,
                           todo |-> [j \in (DOMAIN r.todo) \ {k} |-> r.todo[j]]]]

\* Reorder::pop: None, or the response buffered under next.
ReorderPop(r) ==
    IF r.next \notin DOMAIN r.todo
    THEN [some |-> FALSE, reorder |-> r]
    ELSE [some |-> TRUE, result |-> r.todo[r.next],
          reorder |-> [next |-> r.next + 1,
                       todo |-> [j \in (DOMAIN r.todo) \ {r.next} |-> r.todo[j]]]]

\* The loop `while let Some(response) = reorder.pop()` of main: the buffer
\* after it and the responses it has emitted, appended to out.
RECURSIVE Drain(_, _)
Drain(r, out) ==
    LET p == ReorderPop(r)
    IN  IF p.some THEN Drain(p.reorder, Append(out, p.result))
        ELSE [reorder |-> r, out |-> out]

\* ------------------------------------------------------ FileType (file.rs)

None == [some |-> FALSE]

Some(x) == [some |-> TRUE, value |-> x]

InferredType(content_type, score) == [content_type |-> content_type, score |-> score]

\* impl From<InferredType> for FileType
FileTypeInferred(x) == [variant |-> "Inferred", inferred |-> x]

\* FileType::Ruled(RuledType { content_type, overruled })
FileTypeRuled(content_type, overruled) ==
    [variant |-> "Ruled", content_type |-> content_type, overruled |-> overruled]

\* No FileType yet.
NoFileType == [variant |-> "None"]

\* FileType::score
FileTypeScore(ft) ==
    CASE ft.variant \in {"Directory", "Symlink"} -> MaxScore
      [] ft.variant = "Inferred" -> ft.inferred.score
      [] ft.variant = "Ruled" /\ ~ft.overruled.some -> MaxScore
      [] ft.variant = "Ruled" /\ ft.overruled.some -> ft.overruled.value.score

\* FileType::content_type of a regular file.
FileTypeContentType(ft) ==
    IF ft.variant = "Inferred" THEN ft.inferred.content_type ELSE ft.content_type

\* The body of the loop of FileType::convert for one row of the tensor.
FileTypeConvert(cfg, text, row) ==
    LET best == Best(row)
        inferred == InferredType(LabelContentType(best), row[best])
        mapped == cfg.overwrite_map[inferred.content_type]
        overwrite ==
            IF inferred.score < cfg.thresholds[mapped]
            THEN (IF text[mapped] THEN "txt" ELSE "unknown")
            ELSE mapped
    IN  IF overwrite = inferred.content_type
        THEN FileTypeInferred(inferred)
        ELSE FileTypeRuled(overwrite, Some(inferred))

\* The configurations: a threshold above 0 for every content type, and an
\* overwrite map that sends a and b anywhere and is the identity elsewhere
\* (empty is the content type of no label and the target of no overwrite).
ConfigSet ==
    {[thresholds |-> t, overwrite_map |-> o] :
        t \in {u \in [ContentTypes -> 1 .. MaxScore] : u["empty"] = 1},
        o \in {m \in [ContentTypes -> ContentTypes] :
                 /\ m["empty"] = "empty"
                 /\ m["unknown"] = "unknown"
                 /\ m["txt"] = "txt"
                 /\ m["a"] # "empty"
                 /\ m["b"] # "empty"}}

\* The catalogs: txt is text, unknown and empty are not.
IsTextSet ==
    {t \in [ContentTypes -> BOOLEAN] : t["txt"] /\ ~t["unknown"] /\ ~t["empty"]}

\* The generated defaults: one threshold everywhere, the identity map.
DefaultConfig ==
    [thresholds |-> [c \in ContentTypes |-> 1],
     overwrite_map |-> [c \in ContentTypes |-> c]]

DefaultIsText == [c \in ContentTypes |-> c \in {"txt", "a"}]

\* ------------------------------------------------------------------- Init

FlagsSet ==
    [batch_size : 1 .. MaxBatchSize,
     num_tasks : 1 .. MaxNumTasks,
     recursive : BOOLEAN,
     no_dereference : BOOLEAN,
     path : {[i \in 1 .. n |-> i] : n \in 1 .. MaxPaths}]

Start ==
    /\ flags_paths = Reverse(flags.path)
    /\ order = 0
    /\ paths = <<>>
    /\ features = <<>>
    /\ ppc = "loop"
    /\ pmsg = Err.resp
    /\ batch_channel = <<>>
    /\ result_channel = <<>>
    /\ wpc = [w \in Workers |-> "recv"]
    /\ wout = [w \in Workers |-> <<>>]
    /\ reorder = ReorderDefault
    /\ responses = <<>>
    /\ cpc = "recv"
    /\ exit_code = 0 - 1
    /\ pulled = <<>>
    /\ failed = {}
    /\ config = DefaultConfig
    /\ is_text = DefaultIsText
    /\ scores = [l \in Labels |-> 0]
    /\ file_type = NoFileType
    /\ wbatch = [w \in Workers |-> NoBatch]
    /\ call = NoCall
    /\ ret = NoRet

\* The command line names 1 to MaxPaths paths; each of them has entries when
\* it is a directory, and the entries have none.
Init ==
    /\ flags \in FlagsSet
    /\ tree = 1 .. MaxPaths
    /\ Start

\* ------------------------------------------------------- extract_features

\* The receiver of the result channel is dropped when main returns.
ResultReceiverDropped == cpc = "done"

\* A task that has ended (returned or panicked) has dropped its senders.
Ended(pc) == pc \in {"done", "panicked"}

\* A sender of the batch channel that outlives the producer.
BatchSenderKept == FALSE

\* The only sender of the batch channel is moved into the producer's task and
\* dropped when that task ends.
BatchSenderDropped == Ended(ppc)

\* Every receiver of the batch channel is dropped: the clones of the workers
\* and the original that main holds until it returns.
BatchReceiversDropped == cpc = "done" /\ \A w \in Workers : Ended(wpc[w])

\* The kinds a stat can report under the flags.
StatKinds ==
    {k \in FileKinds :
        /\ k = "symlink" => flags.no_dereference
        /\ k = "read_dir_err" => flags.recursive}

\* Entries pushed in sorted order, so that the last one is popped first.
PushEntriesSorted(stack, entries) == stack \o SortPaths(entries)

\* `paths.sort(); while let Some(path) = paths.pop() { flags_paths.push(path); }`
PushEntries(stack, entries) == stack \o Reverse(SortPaths(entries))

\* An index that is never advanced.
SameOrder(o) == o

\* `order += 1`
NextOrder(o) == o + 1

\* A batch that is sent one item late.
BatchIsFullLate(fs) == Len(fs) = flags.batch_size + 1

\* `features.len() == flags.experimental.batch_size`
BatchIsFull(fs) == Len(fs) = flags.batch_size

\* One iteration of `while let Some(path) = flags_paths.pop()`, up to its
\* first send.
ProducerPop ==
    /\ ppc = "loop"
    /\ flags_paths # <<>>
    /\ LET path == Last(flags_paths)
           rest == Front(flags_paths)
       IN  \E kind \in StatKinds :
            \/ /\ kind = "dir"
               /\ flags.recursive
               /\ flags_paths' = PushEntries(rest, Children(path))
               /\ UNCHANGED <<order, paths, features, ppc, pmsg, pulled>>
            \/ /\ kind \in {"read_dir_err", "read_err"}
               /\ flags_paths' = rest
               /\ ppc' = "send_err"
               /\ pulled' = Append(pulled, [path |-> path, kind |-> kind])
               /\ UNCHANGED <<order, paths, features, pmsg>>
            \/ /\ kind \in {"stat_err", "symlink", "other", "empty", "open_err", "ruled"}
                  \/ (kind = "dir" /\ ~flags.recursive)
               /\ flags_paths' = rest
               /\ pmsg' = Response(order, path, FALSE, DirectOutput(kind))
               /\ ppc' = "send_result"
               /\ pulled' = Append(pulled, [path |-> path, kind |-> kind])
               /\ UNCHANGED <<order, paths, features>>
            \/ /\ kind = "dl"
               /\ flags_paths' = rest
               /\ features' = Append(features, Feat(path))
               /\ paths' = Append(paths, <<order, path>>)
               /\ order' = NextOrder(order)
               /\ ppc' = IF BatchIsFull(features')
                         THEN "send_batch" ELSE "loop"
               /\ pulled' = Append(pulled, [path |-> path, kind |-> kind])
               /\ UNCHANGED pmsg
    /\ UNCHANGED <<flags, tree, batch_channel, result_channel, wpc, wout, wbatch, reorder,
                   responses, cpc, exit_code, failed>>
    /\ UNCHANGED <<lib_vars, api_vars>>

\* `result_sender.send(Ok(Response { .. })).await?; order += 1; continue;`
\* A send to the dropped receiver fails, extract_features returns the error,
\* and the unwrap of the send of that error panics.
ProducerSendResult ==
    /\ ppc = "send_result"
    /\ \/ /\ ResultReceiverDropped
          /\ ppc' = "panicked"
          /\ UNCHANGED <<result_channel, order>>
       \/ /\ ~ResultReceiverDropped
          /\ Len(result_channel) < ResultCapacity
          /\ result_channel' = Append(result_channel, Ok(pmsg))
          /\ order' = NextOrder(order)
          /\ ppc' = "loop"
    /\ UNCHANGED <<flags, tree, flags_paths, paths, features, pmsg, batch_channel, wpc,
                   wout, wbatch, reorder, responses, cpc, exit_code, pulled, failed>>
    /\ UNCHANGED <<lib_vars, api_vars>>

\* `batch_sender.send(Batch { paths, features }).await?`, in the loop (a full
\* batch) and after it (the last, partial batch).
ProducerSendBatch ==
    /\ ppc \in {"send_batch", "flush"}
    /\ \/ /\ BatchReceiversDropped
          /\ ppc' = "panicked"
          /\ UNCHANGED <<batch_channel, paths, features>>
       \/ /\ ~BatchReceiversDropped
          /\ Len(batch_channel) < BatchCapacity
          /\ batch_channel' =
                Append(batch_channel, Batch(paths, features))
          /\ paths' = <<>>
          /\ features' = <<>>
          /\ ppc' = IF ppc = "flush" THEN "done" ELSE "loop"
    /\ UNCHANGED <<flags, tree, flags_paths, order, pmsg, result_channel, wpc, wout, wbatch,
                   reorder, responses, cpc, exit_code, pulled, failed>>
    /\ UNCHANGED <<lib_vars, api_vars>>

\* The loop ends: `if !paths.is_empty() { batch_sender.send(..) } Ok(())`.
ProducerExhausted ==
    /\ ppc = "loop"
    /\ flags_paths = <<>>
    /\ ppc' = IF paths # <<>> THEN "flush" ELSE "done"
    /\ UNCHANGED <<flags, tree, flags_paths, order, paths, features, pmsg,
                   batch_channel, result_channel, wpc, wout, wbatch, reorder, responses,
                   cpc, exit_code, pulled, failed>>
    /\ UNCHANGED <<lib_vars, api_vars>>

\* `if let Err(e) = extract_features(..).await { result_sender.send(Err(e)).await.unwrap(); }`
ProducerSendErr ==
    /\ ppc = "send_err"
    /\ \/ /\ ResultReceiverDropped
          /\ ppc' = "panicked"
          /\ UNCHANGED result_channel
       \/ /\ ~ResultReceiverDropped
          /\ Len(result_channel) < ResultCapacity
          /\ result_channel' = Append(result_channel, Err)
          /\ ppc' = "done"
    /\ UNCHANGED <<flags, tree, flags_paths, order, paths, features, pmsg,
                   batch_channel, wpc, wout, wbatch, reorder, responses, cpc, exit_code,
                   pulled, failed>>
    /\ UNCHANGED <<lib_vars, api_vars>>

\* ------------------------------------------------------------ infer_batch

\* The responses of a batch whose model run succeeded:
\* paths.into_iter().zip(batch.into_iter()), batch being the converted rows.
BatchResponses(b) ==
    [i \in 1 .. Len(b.paths) |->
        Response(b.paths[i][1], b.paths[i][2], TRUE,
                 OutputConvert(ModelScores(b.features[i])))]

\* `while let Ok(Batch { paths, features }) = receiver.recv().await`: the
\* worker takes a batch and starts `magika.identify_many_async(&features)`.
WorkerRecv(w) ==
    /\ wpc[w] = "recv"
    /\ batch_channel # <<>>
    /\ batch_channel' = Tail(batch_channel)
    /\ wbatch' = [wbatch EXCEPT ![w] = Head(batch_channel)]
    /\ wpc' = [wpc EXCEPT ![w] = "run"]
    /\ UNCHANGED <<flags, tree, flags_paths, order, paths, features, ppc, pmsg,
                   result_channel, wout, reorder, responses, cpc, exit_code,
                   pulled, failed>>
    /\ UNCHANGED <<lib_vars, api_vars>>

\* `magika.identify_many_async(&features).await?` completes: the run succeeds
\* or fails.
WorkerRun(w) ==
    /\ wpc[w] = "run"
    /\ \E run_ok \in BOOLEAN :
        \/ /\ run_ok
           /\ wout' = [wout EXCEPT ![w] = BatchResponses(wbatch[w])]
           /\ wpc' = [wpc EXCEPT ![w] = "send"]
           /\ UNCHANGED failed
        \/ /\ ~run_ok
           /\ wpc' = [wpc EXCEPT ![w] = "send_err"]
           /\ failed' = failed \cup {wbatch[w].paths[i][1] :
                                      i \in 1 .. Len(wbatch[w].paths)}
           /\ UNCHANGED wout
    /\ wbatch' = [wbatch EXCEPT ![w] = NoBatch]
    /\ UNCHANGED <<flags, tree, flags_paths, order, paths, features, ppc, pmsg,
                   batch_channel, result_channel, reorder, responses, cpc,
                   exit_code, pulled>>
    /\ UNCHANGED <<lib_vars, api_vars>>

\* recv() fails once the batch channel is empty and its sender is dropped:
\* infer_batch returns Ok(()).
WorkerClosed(w) ==
    /\ wpc[w] = "recv"
    /\ batch_channel = <<>>
    /\ BatchSenderDropped
    /\ wpc' = [wpc EXCEPT ![w] = "done"]
    /\ UNCHANGED <<flags, tree, flags_paths, order, paths, features, ppc, pmsg,
                   batch_channel, result_channel, wout, wbatch, reorder, responses, cpc,
                   exit_code, pulled, failed>>
    /\ UNCHANGED <<lib_vars, api_vars>>

\* `sender.send(Ok(Response { order, path, is_dl: true, output })).await?`
\* for the next response of the batch.
WorkerSend(w) ==
    /\ wpc[w] = "send"
    /\ \/ /\ ResultReceiverDropped
          /\ wpc' = [wpc EXCEPT ![w] = "panicked"]
          /\ UNCHANGED <<result_channel, wout>>
       \/ /\ ~ResultReceiverDropped
          /\ Len(result_channel) < ResultCapacity
          /\ result_channel' = Append(result_channel, Ok(Head(wout[w])))
          /\ wout' = [wout EXCEPT ![w] = Tail(wout[w])]
          /\ wpc' = [wpc EXCEPT ![w] = IF Tail(wout[w]) = <<>> THEN "recv" ELSE "send"]
    /\ UNCHANGED <<flags, tree, flags_paths, order, paths, features, ppc, pmsg,
                   batch_channel, wbatch, reorder, responses, cpc, exit_code, pulled,
                   failed>>
    /\ UNCHANGED <<lib_vars, api_vars>>

\* `if let Err(e) = infer_batch(..).await { result_sender.send(Err(e)).await.unwrap(); }`
WorkerSendErr(w) ==
    /\ wpc[w] = "send_err"
    /\ \/ /\ ResultReceiverDropped
          /\ wpc' = [wpc EXCEPT ![w] = "panicked"]
          /\ UNCHANGED result_channel
       \/ /\ ~ResultReceiverDropped
          /\ Len(result_channel) < ResultCapacity
          /\ result_channel' = Append(result_channel, Err)
          /\ wpc' = [wpc EXCEPT ![w] = "done"]
    /\ UNCHANGED <<flags, tree, flags_paths, order, paths, features, ppc, pmsg,
                   batch_channel, wout, wbatch, reorder, responses, cpc, exit_code,
                   pulled, failed>>
    /\ UNCHANGED <<lib_vars, api_vars>>

\* ------------------------------------------------------------------- main

\* A channel that closes as soon as the producer has dropped its sender.
ResultSendersDroppedEarly == Ended(ppc)

\* Every sender of the result channel is dropped (main dropped its own before
\* the loop).
ResultSendersDropped == Ended(ppc) /\ \A w \in Workers : Ended(wpc[w])

\* One iteration of `while let Some(response) = result_receiver.recv().await`:
\* `reorder.push(response?)`, then the loop over reorder.pop().  An Err makes
\* main return it: the process exits with code 1.
CollectorRecv ==
    /\ cpc = "recv"
    /\ result_channel # <<>>
    /\ LET m == Head(result_channel)
       IN  \/ /\ ~m.ok
              /\ cpc' = "done"
              /\ exit_code' = 1
              /\ result_channel' = <<>>
              /\ UNCHANGED <<reorder, responses>>
           \/ /\ m.ok
              /\ LET d == Drain(ReorderPush(reorder, m.resp), responses)
                 IN  /\ reorder' = d.reorder
                     /\ responses' = d.out
              /\ result_channel' = Tail(result_channel)
              /\ UNCHANGED <<cpc, exit_code>>
    /\ UNCHANGED <<flags, tree, flags_paths, order, paths, features, ppc, pmsg,
                   batch_channel, wpc, wout, wbatch, pulled, failed>>
    /\ UNCHANGED <<lib_vars, api_vars>>

\* recv() returns None: the loop ends and main returns Ok(()), exit code 0.
CollectorClosed ==
    /\ cpc = "recv"
    /\ result_channel = <<>>
    /\ ResultSendersDropped
    /\ cpc' = "done"
    /\ exit_code' = 0
    /\ UNCHANGED <<flags, tree, flags_paths, order, paths, features, ppc, pmsg,
                   batch_channel, result_channel, wpc, wout, wbatch, reorder, responses,
                   pulled, failed>>
    /\ UNCHANGED <<lib_vars, api_vars>>

\* ------------------------------------------------------------------- Spec

Next ==
    \/ ProducerPop
    \/ ProducerSendResult
    \/ ProducerSendBatch
    \/ ProducerExhausted
    \/ ProducerSendErr
    \/ \E w \in Workers : WorkerRecv(w)
    \/ \E w \in Workers : WorkerRun(w)
    \/ \E w \in Workers : WorkerClosed(w)
    \/ \E w \in Workers : WorkerSend(w)
    \/ \E w \in Workers : WorkerSendErr(w)
    \/ CollectorRecv
    \/ CollectorClosed

Spec == Init /\ [][Next]_vars

\* ------------------------------------------------------ fair scheduling

\* The steps of each task.
Producer ==
    \/ ProducerPop
    \/ ProducerSendResult
    \/ ProducerSendBatch
    \/ ProducerExhausted
    \/ ProducerSendErr

Worker(w) ==
    \/ WorkerRecv(w)
    \/ WorkerRun(w)
    \/ WorkerClosed(w)
    \/ WorkerSend(w)
    \/ WorkerSendErr(w)

Collector == CollectorRecv \/ CollectorClosed

\* One path on the command line, with entries when it is a directory.
FairInit ==
    /\ flags \in {f \in FlagsSet : Len(f.path) = 1}
    /\ tree = {1}
    /\ Start

\* The runtime polls every spawned task that is ready, and main: a task that
\* can take a step and stays able to takes it.
FairSpec ==
    /\ FairInit
    /\ [][Next]_vars
    /\ WF_vars(Producer)
    /\ \A w \in 1 .. MaxNumTasks : WF_vars(w \in Workers /\ Worker(w))
    /\ WF_vars(Collector)

\* ------------------------------------------------- nested directories

\* The command lines of the walk: MaxPaths paths in any order, one worker.
WalkFlags ==
    [batch_size : 1 .. MaxBatchSize,
     num_tasks : {1},
     recursive : BOOLEAN,
     no_dereference : BOOLEAN,
     path : {f \in [1 .. MaxPaths -> 1 .. MaxPaths] :
                \A i, j \in 1 .. MaxPaths : f[i] = f[j] => i = j}]

\* One path of the command line has entries, and so has one of its entries.
WalkTrees == {{p, 10 * p + j} : p \in 1 .. MaxPaths, j \in 1 .. NumChildren}

WalkInit ==
    /\ flags \in WalkFlags
    /\ tree \in WalkTrees
    /\ Start

WalkSpec == WalkInit /\ [][Next]_vars

\* ---------------------------------------------- the library post-classifier

\* The pipeline part of the state does not move in specification LibSpec.
LibInit ==
    /\ flags = [batch_size |-> 1, num_tasks |-> 1, recursive |-> FALSE,
                no_dereference |-> FALSE, path |-> <<1>>]
    /\ tree = {}
    /\ flags_paths = <<>>
    /\ order = 0
    /\ paths = <<>>
    /\ features = <<>>
    /\ ppc = "done"
    /\ pmsg = Err.resp
    /\ batch_channel = <<>>
    /\ result_channel = <<>>
    /\ wpc = [w \in {1} |-> "done"]
    /\ wout = [w \in {1} |-> <<>>]
    /\ reorder = ReorderDefault
    /\ responses = <<>>
    /\ cpc = "done"
    /\ exit_code = 0
    /\ pulled = <<>>
    /\ failed = {}
    /\ config \in ConfigSet
    /\ is_text \in IsTextSet
    /\ scores \in ScoreRows
    /\ file_type = NoFileType
    /\ wbatch = [w \in {1} |-> NoBatch]
    /\ call = NoCall
    /\ ret = NoRet

\* Session::identify_features: the model has returned the row scores and
\* FileType::convert turns it into the result.
IdentifyFeatures ==
    /\ file_type = NoFileType
    /\ file_type' = FileTypeConvert(config, is_text, scores)
    /\ UNCHANGED <<config, is_text, scores>>
    /\ UNCHANGED <<cli_vars, api_vars>>

\* Session::identify_content on an input the extractor rules on:
\* `FeaturesOrRuled::Ruled(content_type) => Ok(content_type.into())`.
IdentifyRuled ==
    /\ file_type = NoFileType
    /\ \E content_type \in {"empty", "txt", "unknown"} :
        file_type' = FileTypeRuled(content_type, None)
    /\ UNCHANGED <<config, is_text, scores>>
    /\ UNCHANGED <<cli_vars, api_vars>>

LibNext == IdentifyFeatures \/ IdentifyRuled

LibSpec == LibInit /\ [][LibNext]_vars

\* ------------------------------------------------- inputs (lib/src/input.rs)

\* Largest length of an input whose bytes are all enumerated.
MaxFileLen == 3

\* Largest beg_size, mid_size and end_size of a configuration.
MaxBandSize == 2

\* Largest buffer of a direct call of copy_features or read_at.
MaxBufLen == 4

\* The byte values inputs are made of: TAB, LF, VT, FF, CR, space, 'A', and
\* the two bytes of the UTF-8 encoding of U+00E9 (each invalid on its own).
FileBytes == {9, 10, 11, 12, 13, 32, 65, 195, 169}

\* The byte values at the edges and in the middle of the long inputs.
EdgeBytes == {32, 65}

\* The lengths of the long inputs: around block_size, and around the probes.
LongLens == {4, 5, 32775, 32776, 38920}

SeqsUpTo(S, n) == UNION {[1 .. k -> S] : k \in 0 .. n}

\* An input is its length and its bytes: the bytes head, then fill repeated,
\* then the bytes tail.
Files ==
    {[len |-> Len(h), head |-> h, fill |-> 32, tail |-> <<>>] :
        h \in SeqsUpTo(FileBytes, MaxFileLen)}
    \cup
    [len : LongLens, head : [1 .. 2 -> EdgeBytes], fill : EdgeBytes,
     tail : [1 .. 2 -> EdgeBytes]]

\* The inputs of the direct calls of read_at.
SmallFiles ==
    {[len |-> Len(h), head |-> h, fill |-> 32, tail |-> <<>>] :
        h \in SeqsUpTo(EdgeBytes, MaxFileLen)}

\* The byte of an input at the absolute offset i (from 0).
ByteAt(file, i) ==
    IF i < Len(file.head) THEN file.head[i + 1]
    ELSE IF i >= file.len - Len(file.tail)
         THEN file.tail[i - (file.len - Len(file.tail)) + 1]
         ELSE file.fill

\* The adapters: an in-memory slice (&[u8]) and a file handle (std::fs::File
\* and tokio::fs::File run the same seek and read_exact).
Adapters == {"slice", "file"}

\* length(): the slice knows its length; metadata() of a file can fail.
Length(adapter, file, io_fails) ==
    IF adapter = "file" /\ io_fails
    THEN [tag |-> "Err", error |-> "IOError"]
    ELSE [tag |-> "Ok", value |-> file.len]

\* read_at(buffer, offset) with n = buffer.len().
\*   slice: `buffer.copy_from_slice(&self[offset..][..buffer.len()])` panics
\*          when offset or offset + n is beyond the end.
\*   file:  seek(Start(offset)) goes anywhere; read_exact returns the error
\*          UnexpectedEof when fewer than n bytes follow, and any I/O error.
ReadAt(adapter, file, n, offset, io_fails) ==
    LET filled == [tag |-> "Ok", buffer |-> [k \in 1 .. n |-> ByteAt(file, offset + k - 1)]]
    IN  IF adapter = "slice"
        THEN IF offset > file.len \/ n > file.len - offset
             THEN [tag |-> "Panic"]
             ELSE filled
        ELSE IF io_fails THEN [tag |-> "Err", error |-> "IOError"]
             ELSE IF n > 0 /\ offset + n > file.len
                  THEN [tag |-> "Err", error |-> "IOError"]
                  ELSE filled

\* Only u8::is_ascii_whitespace: space, TAB, LF, FF and CR.
IsAsciiWhitespace(x) == x \in {32, 9, 10, 12, 13}

\* is_whitespace: `x.is_ascii_whitespace() || x == 0x0b`
IsWhitespace(x) == x \in {32, 9, 10, 12, 13} \/ x = 11

\* strip(xs, split_first)
RECURSIVE StripPrefix(_)
StripPrefix(xs) ==
    IF xs = <<>> THEN xs
    ELSE IF ~IsWhitespace(Head(xs)) THEN xs
         ELSE StripPrefix(Tail(xs))

\* strip(xs, split_last)
RECURSIVE StripSuffix(_)
StripSuffix(xs) ==
    IF xs = <<>> THEN xs
    ELSE IF ~IsWhitespace(Last(xs)) THEN xs
         ELSE StripSuffix(Front(xs))

\* A conversion that accepts every byte sequence.
FromUtf8Any(s) == TRUE

\* std::str::from_utf8(s).is_ok(): s is well-formed UTF-8.
RECURSIVE FromUtf8Ok(_)
FromUtf8Ok(s) ==
    IF s = <<>> THEN TRUE
    ELSE LET b == s[1]
             In(k, lo, hi) == k <= Len(s) /\ s[k] >= lo /\ s[k] <= hi
             Cont(k) == In(k, 128, 191)
             Rest(k) == FromUtf8Ok(SubSeq(s, k, Len(s)))
         IN  IF b <= 127 THEN Rest(2)
             ELSE IF b >= 194 /\ b <= 223 THEN Cont(2) /\ Rest(3)
             ELSE IF b = 224 THEN In(2, 160, 191) /\ Cont(3) /\ Rest(4)
             ELSE IF (b >= 225 /\ b <= 236) \/ b = 238 \/ b = 239
                  THEN Cont(2) /\ Cont(3) /\ Rest(4)
             ELSE IF b = 237 THEN In(2, 128, 159) /\ Cont(3) /\ Rest(4)
             ELSE IF b = 240 THEN In(2, 144, 191) /\ Cont(3) /\ Cont(4) /\ Rest(5)
             ELSE IF b >= 241 /\ b <= 243
                  THEN Cont(2) /\ Cont(3) /\ Cont(4) /\ Rest(5)
             ELSE IF b = 244 THEN In(2, 128, 143) /\ Cont(3) /\ Cont(4) /\ Rest(5)
             ELSE FALSE

\* ------------------------------------------- ModelConfig (lib/src/config.rs)

\* The length of one probe band: `features.split_at_mut(8)`.
ProbeSize == 8

\* `for offset in [0x8000, 0x8800, 0x9000, 0x9800]`
ProbeOffsets == <<32768, 34816, 36864, 38912>>

\* The extraction part of the configurations.  The bands are shorter than a
\* block (the debug assertions of extract_features_async), min_file_size_for_dl
\* is at least 1 and indexes the beginning band, and padding_token is 256, as
\* in the generated configurations.
ModelConfigs ==
    {c \in [beg_size : 1 .. MaxBandSize,
            mid_size : 0 .. MaxBandSize,
            end_size : 1 .. MaxBandSize,
            use_inputs_at_offsets : BOOLEAN,
            min_file_size_for_dl : 1 .. MaxBandSize,
            padding_token : {256},
            block_size : {MaxBandSize + 1}] :
        c.min_file_size_for_dl <= c.beg_size}

\* ModelConfig::features_size
FeaturesSize(cfg) ==
    LET offsets_size == IF cfg.use_inputs_at_offsets THEN 4 * 8 ELSE 0
    IN  cfg.beg_size + cfg.mid_size + cfg.end_size + offsets_size

\* slice.split_at_mut(mid): the first mid elements, and the others.
SplitAt(s, mid) == [head |-> SubSeq(s, 1, mid), tail |-> SubSeq(s, mid + 1, Len(s))]

\* The loop of split_features over the probe offsets: k is the number of
\* probes split off so far, off their (offset, band) pairs.
RECURSIVE SplitProbes(_, _, _)
SplitProbes(fs, k, off) ==
    IF k = Len(ProbeOffsets) THEN [off |-> off, rest |-> fs]
    ELSE LET s == SplitAt(fs, ProbeSize)
         IN  SplitProbes(s.tail, k + 1, Append(off, <<ProbeOffsets[k + 1], s.head>>))

\* ModelConfig::split_features; rest is what the debug assertion wants empty.
SplitFeatures(cfg, fs) ==
    LET b == SplitAt(fs, cfg.beg_size)
        m == SplitAt(b.tail, cfg.mid_size)
        e == SplitAt(m.tail, cfg.end_size)
        p == IF cfg.use_inputs_at_offsets
             THEN SplitProbes(e.tail, 0, <<>>)
             ELSE [off |-> <<>>, rest |-> e.tail]
    IN  [beg |-> b.head, mid |-> m.head, end |-> e.head, off |-> p.off,
         rest |-> p.rest]

\* ------------------------------------------- the extractor (lib/src/input.rs)

\* A byte widened as a signed one.
WidenSigned(x) == IF x >= 128 THEN x - 256 ELSE x

\* `*src as i32` for a u8.
Widen(x) == x

\* A copy that ignores the alignment: always from the start to the start.
CopyFeaturesLeft(dst, src, align) ==
    LET len == IF Len(dst) <= Len(src) THEN Len(dst) ELSE Len(src)
    IN  [i \in 1 .. Len(dst) |-> IF i <= len THEN Widen(src[i]) ELSE dst[i]]

\* copy_features(dst, src, align): dst after the call.
CopyFeatures(dst, src, align) ==
    LET len == IF Len(dst) <= Len(src) THEN Len(dst) ELSE Len(src)
        dst_start == ((Len(dst) - len) * align) \div 2
        src_start == ((Len(src) - len) * align) \div 2
    IN  [i \in 1 .. Len(dst) |->
            IF i - 1 >= dst_start /\ i - 1 < dst_start + len
            THEN Widen(src[src_start + (i - 1 - dst_start) + 1])
            ELSE dst[i]]

\* A middle window that starts at the middle of the input.
MidOffHalf(file_len, mid_len) == file_len \div 2

\* `let mid_off = (file_len - mid_len) / 2;`
MidOff(file_len, mid_len) == (file_len - mid_len) \div 2

\* The reads extract_features_async issues after the length, in order.
ReadPlan(cfg, file_len) ==
    LET buffer_size == IF cfg.block_size <= file_len THEN cfg.block_size ELSE file_len
        mid_len == IF cfg.mid_size <= file_len THEN cfg.mid_size ELSE file_len
        mid_off == MidOff(file_len, mid_len)
        probes == IF cfg.use_inputs_at_offsets
                  THEN SelectSeq(ProbeOffsets, LAMBDA o : o + ProbeSize <= file_len)
                  ELSE <<>>
    IN  <<[n |-> buffer_size, offset |-> 0],
          [n |-> buffer_size, offset |-> file_len - buffer_size],
          [n |-> mid_len, offset |-> mid_off]>>
        \o [k \in 1 .. Len(probes) |-> [n |-> ProbeSize, offset |-> probes[k]]]

\* The probe bands after the loop over split_features.off: a probe inside the
\* input is copied from the read of its plan, the others from an empty buffer.
ProbeBands(off, file_len, bufs) ==
    LET inside == {k \in 1 .. Len(off) : off[k][1] + Len(off[k][2]) <= file_len}
        nth(k) == Cardinality({j \in inside : j <= k})
    IN  [k \in 1 .. Len(off) |->
            CopyFeatures(off[k][2], IF k \in inside THEN bufs[3 + nth(k)] ELSE <<>>, 0)]

RECURSIVE Concat(_)
Concat(ss) == IF ss = <<>> THEN <<>> ELSE Head(ss) \o Concat(Tail(ss))

\* extract_features_async(config, file, file_len); fail_at is the number of
\* the input operation the environment fails (the length is the first), 0 for
\* none.  reads are the read_at calls issued, with the failed one.
ExtractFeaturesAsync(cfg, adapter, file, file_len, fail_at) ==
    LET plan == ReadPlan(cfg, file_len)
        res == [k \in 1 .. Len(plan) |->
                    ReadAt(adapter, file, plan[k].n, plan[k].offset, fail_at = k + 1)]
        bad == {k \in 1 .. Len(plan) : res[k].tag # "Ok"}
    IN  IF bad # {}
        THEN [tag |-> res[Min(bad)].tag, reads |-> SubSeq(plan, 1, Min(bad))]
        ELSE LET bufs == [k \in 1 .. Len(plan) |-> res[k].buffer]
                 content_beg == bufs[1]
                 beg == StripPrefix(content_beg)
                 end == StripSuffix(bufs[2])
                 mid == bufs[3]
                 fs == [i \in 1 .. FeaturesSize(cfg) |-> cfg.padding_token]
                 split_features == SplitFeatures(cfg, fs)
                 probes == ProbeBands(split_features.off, file_len, bufs)
             IN  [tag |-> "Ok", reads |-> plan, first_block |-> content_beg,
                  features |->
                      CopyFeatures(split_features.beg, beg, 0)
                      \o CopyFeatures(split_features.mid, mid, 1)
                      \o CopyFeatures(split_features.end, end, 2)
                      \o Concat(probes)
                      \o split_features.rest]

\* No input is taken for an empty one.
NeverEmpty(file_len) == FALSE

\* `if file_len == 0`
IsEmptyLen(file_len) == file_len = 0

\* FeaturesOrRuled::extract.  The result keeps what was done on the way: the
\* reads issued, the vector packed and the first block.
Extract(cfg, adapter, file, fail_at) ==
    LET l == Length(adapter, file, fail_at = 1)
    IN  IF l.tag # "Ok"
        THEN [tag |-> "Err", ops |-> <<"length">>, reads |-> <<>>]
        ELSE IF IsEmptyLen(l.value)
        THEN [tag |-> "Ruled", content_type |-> "empty",
              ops |-> <<"length">>, reads |-> <<>>]
        ELSE LET x == ExtractFeaturesAsync(cfg, adapter, file, l.value, fail_at)
                 ops == <<"length">> \o [k \in 1 .. Len(x.reads) |-> "read_at"]
             IN  IF x.tag # "Ok"
                 THEN [tag |-> x.tag, ops |-> ops, reads |-> x.reads]
                 ELSE IF x.features[cfg.min_file_size_for_dl - 1 + 1] # cfg.padding_token
                 THEN [tag |-> "Features", features |-> x.features,
                       ops |-> ops, reads |-> x.reads, first_block |-> x.first_block]
                 ELSE [tag |-> "Ruled",
                       content_type |-> IF FromUtf8Ok(x.first_block)
                                        THEN "txt" ELSE "unknown",
                       features |-> x.features,
                       ops |-> ops, reads |-> x.reads, first_block |-> x.first_block]

\* --------------------------------- the earlier extractor (src/config.rs)

\* `pub(crate) const FEATURE_SIZE: usize = 512;`
FEATURE_SIZE == 512

\* `const BUFFER_SIZE: usize = 2 * 4096;`
BUFFER_SIZE == 2 * 4096

\* The inputs of the earlier extractor: a length and the numbers of
\* whitespace bytes the content starts and ends with.  Between the two runs
\* there is a byte that is no whitespace, or the whole content is whitespace
\* and both runs are the content.
OldLens ==
    {0, 1, 2 * BUFFER_SIZE + FEATURE_SIZE - 1, 2 * BUFFER_SIZE + FEATURE_SIZE,
     2 * BUFFER_SIZE + FEATURE_SIZE + 1, 3 * BUFFER_SIZE - FEATURE_SIZE - 1,
     3 * BUFFER_SIZE - FEATURE_SIZE, 5 * BUFFER_SIZE}

OldRuns ==
    {0, 1, 2 * FEATURE_SIZE, 2 * FEATURE_SIZE + 1, BUFFER_SIZE - 1, BUFFER_SIZE,
     BUFFER_SIZE + 1}

OldFiles ==
    {f \in [len : OldLens, leading : OldRuns \cup OldLens,
            trailing : OldRuns \cup OldLens] :
        \/ f.leading + f.trailing < f.len
        \/ (f.leading = f.len /\ f.trailing = f.len)}

\* MagikaSyncInputApi::read_at for [u8] and for std::fs::File: the outcome of
\* a read of n bytes at offset.  The slice index of [u8] panics when the range
\* leaves the input; read_exact_at returns an error.
OldReadAt(adapter, file_len, n, offset, io_fails) ==
    IF offset >= 0 /\ offset + n <= file_len
    THEN IF adapter = "file" /\ io_fails THEN "Err" ELSE "Ok"
    ELSE IF adapter = "slice" THEN "Panic" ELSE "Err"

\* What strip_prefix takes off the first n bytes of the input and what
\* strip_suffix takes off its last n bytes.
OldTrimmedBeg(file, n) == Min({file.leading, n})

OldTrimmedEnd(file, n) == Min({file.trailing, n})

\* `trimmed_beg + (file_len - trimmed_beg - trimmed_end - FEATURE_SIZE) / 2`
OldMidOffset(file_len, trimmed_beg, trimmed_end) ==
    trimmed_beg + (file_len - trimmed_beg - trimmed_end - FEATURE_SIZE) \div 2

\* The read_at calls extract_features_async of the earlier crate plans for an
\* input of file_len bytes, in the order it issues them.
OldReadPlan(file, file_len) ==
    IF file_len < 2 * BUFFER_SIZE + FEATURE_SIZE
    THEN <<[n |-> file_len, offset |-> 0]>>
    ELSE LET trimmed_beg == OldTrimmedBeg(file, BUFFER_SIZE)
             trimmed_end == OldTrimmedEnd(file, BUFFER_SIZE)
         IN  <<[n |-> BUFFER_SIZE, offset |-> 0],
               [n |-> BUFFER_SIZE, offset |-> file_len - BUFFER_SIZE],
               [n |-> BUFFER_SIZE,
                offset |-> OldMidOffset(file_len, trimmed_beg, trimmed_end)]>>

\* extract_features_async of the earlier crate, up to the feature vector:
\* the outcome and the reads issued, the last one being the one that failed
\* when one failed.  A subtraction below zero panics (overflow checks) or
\* wraps to an offset no input reaches.
OldExtractFeaturesAsync(adapter, file, fail_at) ==
    IF adapter = "file" /\ fail_at = 1
    THEN [tag |-> "Err", reads |-> <<>>]
    ELSE LET file_len == file.len
             plan == OldReadPlan(file, file_len)
             res == [k \in 1 .. Len(plan) |->
                        OldReadAt(adapter, file_len, plan[k].n, plan[k].offset,
                                  fail_at = k + 1)]
             bad == {k \in 1 .. Len(plan) : res[k] # "Ok"}
         IN  IF /\ file_len >= 2 * BUFFER_SIZE + FEATURE_SIZE
                /\ file_len - OldTrimmedBeg(file, BUFFER_SIZE)
                     - OldTrimmedEnd(file, BUFFER_SIZE) - FEATURE_SIZE < 0
             THEN [tag |-> "Panic", reads |-> SubSeq(plan, 1, 2)]
             ELSE IF bad # {}
             THEN [tag |-> res[Min(bad)], reads |-> SubSeq(plan, 1, Min(bad))]
             ELSE [tag |-> "Features", reads |-> plan]

\* ------------------------------------------ the session (lib/src/session.rs)

\* What symlink_metadata and open can find at a path.
\*   stat_err  symlink_metadata fails       dir      a directory
\*   symlink   a symbolic link              other    no directory, link or file
\*   open_err  a regular file open fails on          file  a regular file
PathKinds == {"stat_err", "dir", "symlink", "other", "open_err", "file"}

\* The numbers of the input operation the environment can fail, 0 for none.
FailPoints == 0 .. (4 + Len(ProbeOffsets))

\* The class of a feature vector the model tells apart.
FeatureClass(fs) == SumSeq(fs) % 2

\* The results in the reverse order of the rows.
IdentifyFeaturesBatchReversed(cfg, text, fs) ==
    [i \in 1 .. Len(fs) |-> FileTypeConvert(cfg, text, ModelScores(fs[Len(fs) + 1 - i]))]

\* identify_features_batch on a run that succeeds: FileType::convert of the
\* tensor the model returns, one row for every Features of the batch.
IdentifyFeaturesBatchResults(cfg, text, fs) ==
    [i \in 1 .. Len(fs) |-> FileTypeConvert(cfg, text, ModelScores(fs[i]))]

\* The calls: a function of the library and its arguments.
CallSet ==
    [fn : {"identify_content"}, config : ModelConfigs, adapter : Adapters,
     file : Files]
    \cup [fn : {"identify_file"}, kind : PathKinds, config : ModelConfigs,
          file : {f \in SmallFiles : f.len <= 1}]
    \cup [fn : {"copy_features"}, align : 0 .. 2,
          dst : {[i \in 1 .. n |-> 256] : n \in 0 .. MaxBufLen},
          src : {[i \in 1 .. n |-> 64 + i] : n \in 0 .. MaxBufLen}]
    \cup [fn : {"read_at"}, adapter : Adapters, file : SmallFiles,
          n : 0 .. MaxBufLen, offset : 0 .. MaxBufLen]
    \cup [fn : {"identify_features_batch"},
          features : SeqsUpTo({0, 1}, MaxBatchSize + 1)]
    \cup [fn : {"old_extract_features"}, adapter : Adapters, file : OldFiles]

\* The pipeline part and the post-classifier part of the state do not move in
\* specification CallSpec.
CallInit ==
    /\ flags = [batch_size |-> 1, num_tasks |-> 1, recursive |-> FALSE,
                no_dereference |-> FALSE, path |-> <<1>>]
    /\ tree = {}
    /\ flags_paths = <<>>
    /\ order = 0
    /\ paths = <<>>
    /\ features = <<>>
    /\ ppc = "done"
    /\ pmsg = Err.resp
    /\ batch_channel = <<>>
    /\ result_channel = <<>>
    /\ wpc = [w \in {1} |-> "done"]
    /\ wout = [w \in {1} |-> <<>>]
    /\ wbatch = [w \in {1} |-> NoBatch]
    /\ reorder = ReorderDefault
    /\ responses = <<>>
    /\ cpc = "done"
    /\ exit_code = 0
    /\ pulled = <<>>
    /\ failed = {}
    /\ config = DefaultConfig
    /\ is_text = DefaultIsText
    /\ scores = [l \in Labels |-> 0]
    /\ file_type = NoFileType
    /\ call \in CallSet
    /\ ret = NoRet

\* A dispatch that opens the path before it looks at what the path is.
IdentifyFileOpenFirst(kind, debug_assertions) ==
    CASE kind = "stat_err" ->
            [tag |-> "Err", ops |-> <<"symlink_metadata">>]
      [] kind = "open_err" ->
            [tag |-> "Err", ops |-> <<"symlink_metadata", "open">>]
      [] OTHER ->
            [tag |-> "Opened", ops |-> <<"symlink_metadata", "open">>]

\* Session::identify_file up to the call of identify_content.  A path that is
\* no directory, link or regular file fails the debug assertion in a build
\* with debug assertions and is opened in a build without.
IdentifyFileDispatch(kind, debug_assertions) ==
    CASE kind = "stat_err" ->
            [tag |-> "Err", ops |-> <<"symlink_metadata">>]
      [] kind = "dir" ->
            [tag |-> "FileType", file_type |-> [variant |-> "Directory"],
             ops |-> <<"symlink_metadata">>]
      [] kind = "symlink" ->
            [tag |-> "FileType", file_type |-> [variant |-> "Symlink"],
             ops |-> <<"symlink_metadata">>]
      [] kind = "other" /\ debug_assertions ->
            [tag |-> "Panic", ops |-> <<"symlink_metadata">>]
      [] kind = "open_err" ->
            [tag |-> "Err", ops |-> <<"symlink_metadata", "open">>]
      [] OTHER ->
            [tag |-> "Opened", ops |-> <<"symlink_metadata", "open">>]

\* A call of Session::identify_file.
IdentifyFile ==
    /\ call.fn = "identify_file"
    /\ ret = NoRet
    /\ \E debug_assertions \in BOOLEAN :
        ret' = IdentifyFileDispatch(call.kind, debug_assertions)
    /\ UNCHANGED call
    /\ UNCHANGED <<cli_vars, lib_vars>>

\* `FeaturesOrRuled::extract(file).await` in identify_content, on the input
\* of the call or on the file identify_file has opened.
ExtractContent ==
    /\ \/ call.fn = "identify_content" /\ ret = NoRet
       \/ call.fn = "identify_file" /\ ret.tag = "Opened"
    /\ LET adapter == IF call.fn = "identify_file" THEN "file" ELSE call.adapter
           before == IF call.fn = "identify_file" THEN ret.ops ELSE <<>>
       IN  \E fail_at \in IF adapter = "file" THEN FailPoints ELSE {0} :
              LET x == Extract(call.config, adapter, call.file, fail_at)
              IN  ret' = [x EXCEPT !.ops = before \o x.ops]
    /\ UNCHANGED call
    /\ UNCHANGED <<cli_vars, lib_vars>>

\* The match of identify_content on what extract returned: a ruling becomes
\* the FileType, Features go through identify_features.
IdentifyExtracted ==
    /\ call.fn \in {"identify_content", "identify_file"}
    /\ ret.tag \in {"Ruled", "Features"}
    /\ \/ /\ ret.tag = "Ruled"
          /\ ret' = [tag |-> "FileType",
                     file_type |-> FileTypeRuled(ret.content_type, None),
                     ops |-> ret.ops, extracted |-> ret]
       \/ /\ ret.tag = "Features"
          /\ \E run_ok \in BOOLEAN :
                ret' =
                    IF run_ok
                    THEN [tag |-> "FileType",
                          file_type |->
                              IdentifyFeaturesBatchResults(
                                  config, is_text, <<FeatureClass(ret.features)>>)[1],
                          ops |-> Append(ret.ops, "ort_session_run"),
                          extracted |-> ret]
                    ELSE [tag |-> "Err",
                          ops |-> Append(ret.ops, "ort_session_run"),
                          extracted |-> ret]
    /\ UNCHANGED call
    /\ UNCHANGED <<cli_vars, lib_vars>>

\* Session::identify_features_batch
IdentifyFeaturesBatch ==
    /\ call.fn = "identify_features_batch"
    /\ ret = NoRet
    /\ \/ /\ call.features = <<>>
          /\ ret' = [tag |-> "Ok", results |-> <<>>, ops |-> <<>>]
       \/ /\ call.features # <<>>
          /\ \E run_ok \in BOOLEAN :
                ret' =
                    IF run_ok
                    THEN [tag |-> "Ok",
                          results |->
                              IdentifyFeaturesBatchResults(config, is_text, call.features),
                          ops |-> <<"ort_session_run">>]
                    ELSE [tag |-> "Err", ops |-> <<"ort_session_run">>]
    /\ UNCHANGED call
    /\ UNCHANGED <<cli_vars, lib_vars>>

\* A call of copy_features.
CopyFeaturesCall ==
    /\ call.fn = "copy_features"
    /\ ret = NoRet
    /\ ret' = [tag |-> "Ok", dst |-> CopyFeatures(call.dst, call.src, call.align)]
    /\ UNCHANGED call
    /\ UNCHANGED <<cli_vars, lib_vars>>

\* A call of read_at with a buffer of n bytes.
ReadAtCall ==
    /\ call.fn = "read_at"
    /\ ret = NoRet
    /\ \E io_fails \in BOOLEAN :
        ret' = ReadAt(call.adapter, call.file, call.n, call.offset, io_fails)
    /\ UNCHANGED call
    /\ UNCHANGED <<cli_vars, lib_vars>>

\* A call of the earlier extractor.
OldExtractCall ==
    /\ call.fn = "old_extract_features"
    /\ ret = NoRet
    /\ \E fail_at \in IF call.adapter = "file" THEN 0 .. 4 ELSE {0} :
        ret' = OldExtractFeaturesAsync(call.adapter, call.file, fail_at)
    /\ UNCHANGED call
    /\ UNCHANGED <<cli_vars, lib_vars>>

CallNext ==
    \/ IdentifyFile
    \/ ExtractContent
    \/ IdentifyExtracted
    \/ IdentifyFeaturesBatch
    \/ CopyFeaturesCall
    \/ ReadAtCall
    \/ OldExtractCall

CallSpec == CallInit /\ [][CallNext]_vars

\* ------------------------------------------------- properties: the pipeline

\* The kinds that make extract_features return an error.
FatalKinds == {"read_err", "read_dir_err"}

\* The kinds of an input that failed: its stat, open, read_dir or read did.
ErrorKinds == {"stat_err", "open_err", "read_err", "read_dir_err"}

\* main has returned: the collector emits nothing more.
CollectorDone == cpc = "done"

\* The response of the i-th work item pulled, as the library computes it for
\* that item alone.
ExpectedResponse(i) ==
    IF pulled[i].kind = "dl"
    THEN Response(i - 1, pulled[i].path, TRUE,
                  OutputConvert(ModelScores(Feat(pulled[i].path))))
    ELSE Response(i - 1, pulled[i].path, FALSE, DirectOutput(pulled[i].kind))

\* What a run with batch_size = 1 and one worker emits when every task runs as
\* soon as it can: the responses of the items pulled, up to the first one that
\* makes the producer return an error.
Reference ==
    LET n == Cardinality({i \in 1 .. Len(pulled) : pulled[i].kind \notin FatalKinds})
    IN  [i \in 1 .. n |-> ExpectedResponse(i)]

\* C1: the j-th response the collector emits has the order index j (from 0):
\* the emitted responses are always the prefix 0, 1, ..., j-1 of the input
\* order, without a repeat or a gap.
C1_EmittedInOrder == \A j \in 1 .. Len(responses) : responses[j].order = j - 1

\* C1 witness: responses have been emitted and a response that arrived ahead of
\* its turn waits in the buffer; a model response has been emitted after a
\* direct one.
C1_Witness ==
    /\ Len(responses) >= 2
    /\ ~responses[1].is_dl
    /\ responses[2].is_dl
    /\ DOMAIN reorder.todo # {}

\* C2 (as claimed): when no model run fails, the sequence the collector has
\* emitted when it stops is the one of the run with batch_size = 1 and one
\* worker, whatever the batch size, the number of workers and the schedule.
C2_BatchInvariance == (CollectorDone /\ failed = {}) => responses = Reference

\* C3 (as claimed): every work item pulled is delivered exactly once, at its
\* order index; stated for the runs that end: once the collector has stopped,
\* every item pulled has been emitted at its position.
C3_AllDelivered ==
    CollectorDone =>
        /\ Len(responses) = Len(pulled)
        /\ \A i \in 1 .. Len(pulled) :
            /\ responses[i].order = i - 1
            /\ responses[i].path = pulled[i].path

\* C4 (as claimed): when the model run fails for a batch, every item of the
\* batch gets its own Err response with its order index, and the other items
\* keep their order: once the collector has stopped, every item of a failed
\* batch has been emitted at its position with an error status.
C4_BatchErrorFanOut ==
    CollectorDone =>
        \A o \in failed :
            /\ o + 1 <= Len(responses)
            /\ responses[o + 1].order = o
            /\ responses[o + 1].output.tag = "Error"

\* C5 (as claimed): a failure to stat, open or read one input becomes an Err
\* response at the order index of that input and the producer goes on: it
\* never returns an error for it, and once the collector has stopped (no model
\* run having failed) every such input has been emitted with an error status.
C5_ProducerErrorsOrdered ==
    /\ ~(ppc = "send_err" /\ Last(pulled).kind = "read_err")
    /\ (CollectorDone /\ failed = {}) =>
          \A i \in 1 .. Len(pulled) :
              pulled[i].kind \in {"stat_err", "open_err", "read_err"} =>
                  /\ i <= Len(responses)
                  /\ responses[i].order = i - 1
                  /\ responses[i].output.tag = "Error"

\* An input errored: a per-file failure of the producer, or a failed model run.
SomeInputErrored ==
    \/ \E i \in 1 .. Len(pulled) : pulled[i].kind \in ErrorKinds
    \/ failed # {}

\* C6 (as claimed): the exit code is 0 exactly when no input errored and 1 when
\* one did.
C6_ExitCode ==
    CollectorDone =>
        /\ exit_code \in {0, 1}
        /\ exit_code = 1 <=> SomeInputErrored

\* The Features extracted by the producer and not yet turned into a response:
\* in the batch the producer is building, in the batch channel, and held by a
\* worker (the batch whose run it awaits, and the rows it has still to send).
InFlight ==
    Len(features)
    + SumSeq([i \in 1 .. Len(batch_channel) |-> Len(batch_channel[i].features)])
    + SumSeq([w \in 1 .. flags.num_tasks |->
                Len(wbatch[w].features) + Len(wout[w])])

\* The producer starts a batch only after it has sent the previous one: the
\* batch it builds never outgrows batch_size, and a full batch is being sent.
OneBatchAtATime ==
    /\ Len(features) = Len(paths)
    /\ Len(features) <= flags.batch_size
    /\ Len(features) = flags.batch_size => ppc \in {"send_batch", "panicked"}

\* C19 (as claimed): at most num_workers * batch_size + result_channel_capacity
\* Features are in flight, and the producer starts a new batch only after it has
\* sent the previous one.
C19_InFlightBound ==
    /\ InFlight <= flags.num_tasks * flags.batch_size + ResultCapacity
    /\ OneBatchAtATime

\* C19 (amended): at most (2 * num_workers + 1) * batch_size Features are in
\* flight (one batch in the producer, num_workers batches in the batch channel,
\* one batch in every worker), and the producer starts a new batch only after it
\* has sent the previous one.
C19_InFlightBatches ==
    /\ InFlight <= (2 * flags.num_tasks + 1) * flags.batch_size
    /\ OneBatchAtATime

\* C19 witness: the producer waits with a full batch while the batch channel is
\* full and every worker awaits the run of a batch: the bound is reached.
C19_Witness ==
    /\ InFlight = (2 * flags.num_tasks + 1) * flags.batch_size
    /\ ppc = "send_batch"
    /\ Len(batch_channel) = BatchCapacity
    /\ \A w \in Workers : wpc[w] = "run"

\* C20 (as claimed): when the collector has gone away while the producer or
\* workers still run, every task ends cleanly on its failed send: no task
\* panics.
C20_CleanShutdown ==
    CollectorDone => /\ ppc # "panicked"
                     /\ \A w \in Workers : wpc[w] # "panicked"

\* C21: no assertion of the collector fails: the response the collector is
\* about to push has an order of at least next and an index that is not
\* buffered, and when the result channel closes, and after the collector has
\* left its loop that way, the buffer is empty.
C21_CollectorAssertions ==
    /\ (cpc = "recv" /\ result_channel # <<>> /\ Head(result_channel).ok) =>
            LET response == Head(result_channel).resp
            IN  /\ reorder.next <= response.order
                /\ response.order \notin DOMAIN reorder.todo
    /\ (cpc = "recv" /\ result_channel = <<>> /\ ResultSendersDropped) =>
            ReorderIsEmpty(reorder)
    /\ (cpc = "done" /\ exit_code = 0) => ReorderIsEmpty(reorder)

\* C21 witness: the collector is about to push a response that is ahead of
\* its turn into a buffer that already holds one.
C21_Witness ==
    /\ cpc = "recv"
    /\ result_channel # <<>>
    /\ Head(result_channel).ok
    /\ Head(result_channel).resp.order > reorder.next
    /\ ~ReorderIsEmpty(reorder)

\* The item the order index o was assigned to: the (o+1)-th item pulled.
\* An expanded directory is not an item: it is replaced by its entries.
Placed(o, path, is_dl) ==
    /\ o \in 0 .. order - 1
    /\ pulled[o + 1].path = path
    /\ (pulled[o + 1].kind = "dl") = is_dl

\* The batch entries that carry the index o and have not been run yet.
BatchEntries(o) ==
    Cardinality({i \in DOMAIN paths : paths[i][1] = o})
    + Cardinality({ij \in (DOMAIN batch_channel) \X (1 .. flags.batch_size) :
                      /\ ij[2] <= Len(batch_channel[ij[1]].paths)
                      /\ batch_channel[ij[1]].paths[ij[2]][1] = o})
    + Cardinality({wj \in Workers \X (1 .. flags.batch_size) :
                      /\ wj[2] <= Len(wbatch[wj[1]].paths)
                      /\ wbatch[wj[1]].paths[wj[2]][1] = o})

\* The responses that carry the index o, and the failed run of its batch.
ResponseEntries(o) ==
    Cardinality({wj \in Workers \X (1 .. flags.batch_size) :
                      /\ wj[2] <= Len(wout[wj[1]])
                      /\ wout[wj[1]][wj[2]].order = o})
    + Cardinality({i \in DOMAIN result_channel :
                      result_channel[i].ok /\ result_channel[i].resp.order = o})
    + Cardinality({k \in DOMAIN reorder.todo : reorder.todo[k].order = o})
    + Cardinality({i \in DOMAIN responses : responses[i].order = o})
    + (IF o \in failed THEN 1 ELSE 0)

\* The responses that are somewhere between a sender and the output.
AllResponses ==
    {result_channel[i].resp :
        i \in {k \in DOMAIN result_channel : result_channel[k].ok}}
    \cup {reorder.todo[k] : k \in DOMAIN reorder.todo}
    \cup {responses[i] : i \in DOMAIN responses}
    \cup UNION {{wout[w][i] : i \in DOMAIN wout[w]} : w \in Workers}

\* The batch entries that are with the producer, in the channel or with a
\* worker.
AllBatchEntries ==
    {paths[i] : i \in DOMAIN paths}
    \cup UNION {{b.paths[i] : i \in DOMAIN b.paths} :
                    b \in {batch_channel[k] : k \in DOMAIN batch_channel}}
    \cup UNION {{wbatch[w].paths[i] : i \in DOMAIN wbatch[w].paths} : w \in Workers}

\* C22: while the collector runs, the indices assigned are 0 .. order-1, the
\* index o belongs to the (o+1)-th item pulled, and that item sits in exactly
\* one place: one direct response when it needed no model, one batch entry
\* (or the response or failure that came of it) when it did; the item being
\* sent directly and an item that made the producer return an error have no
\* index yet, and an expanded directory never gets one.
C22_OrderIndices ==
    (cpc = "recv") =>
        /\ order = Len(pulled)
                   - (IF \/ ppc = "send_result"
                         \/ (pulled # <<>> /\ Last(pulled).kind \in FatalKinds)
                      THEN 1 ELSE 0)
        /\ ppc = "send_result" =>
                (pmsg.order = order /\ pmsg.path = Last(pulled).path)
        /\ \A o \in 0 .. order - 1 : BatchEntries(o) + ResponseEntries(o) = 1
        /\ \A r \in AllResponses : Placed(r.order, r.path, r.is_dl)
        /\ \A e \in AllBatchEntries : Placed(e[1], e[2], TRUE)
        /\ \A o \in failed : o \in 0 .. order - 1 /\ pulled[o + 1].kind = "dl"
        /\ \A i \in 1 .. Len(pulled) :
                pulled[i].kind = "dir" => pulled[i].path \notin tree \/ ~flags.recursive

\* C22 witness: a directory was expanded and three indices were assigned to
\* its entries and to the path after it, to a direct response and to a batch
\* entry among them.
C22_Witness ==
    /\ cpc = "recv"
    /\ order >= 3
    /\ pulled[1].path > 9
    /\ \E i, j \in 1 .. order : pulled[i].kind = "dl" /\ pulled[j].kind # "dl"
    /\ AllBatchEntries # {}

\* The batches that have been sent and not yet run: those in the batch
\* channel, oldest first, and the one each worker holds.
HeldBatches == {wbatch[w] : w \in {v \in Workers : wbatch[v] # NoBatch}}

\* The order indices of a batch.
BatchOrders(b) == [i \in 1 .. Len(b.paths) |-> b.paths[i][1]]

\* The producer has returned Ok(()) from extract_features.
ProducerReturnedOk ==
    /\ ppc = "done"
    /\ \A i \in 1 .. Len(pulled) : pulled[i].kind \notin FatalKinds

\* The batch b holds the item the producer extracted Features from last.
HoldsLastFeatures(b) ==
    \E i \in 1 .. Len(pulled) :
        /\ pulled[i].kind = "dl"
        /\ \A j \in (i + 1) .. Len(pulled) : pulled[j].kind # "dl"
        /\ b.paths[Len(b.paths)][2] = pulled[i].path

\* C23: every batch sent holds between 1 and batch_size items, as many paths
\* as features, with strictly increasing order indices; a batch of fewer than
\* batch_size items is the last one sent, after the input was exhausted; and
\* once the producer has returned without an error no Features are left with
\* it.
C23_Batches ==
    /\ \A b \in HeldBatches \cup {batch_channel[i] : i \in DOMAIN batch_channel} :
            /\ Len(b.paths) = Len(b.features)
            /\ Len(b.paths) \in 1 .. flags.batch_size
            /\ \A i, j \in 1 .. Len(b.paths) :
                    i < j => BatchOrders(b)[i] < BatchOrders(b)[j]
            /\ Len(b.paths) < flags.batch_size =>
                    /\ ppc = "done"
                    /\ flags_paths = <<>>
                    /\ HoldsLastFeatures(b)
    /\ \A i \in 1 .. Len(batch_channel) - 1 :
            Len(batch_channel[i].paths) = flags.batch_size
    /\ \A b \in HeldBatches :
            Len(b.paths) < flags.batch_size => batch_channel = <<>>
    /\ ProducerReturnedOk => (features = <<>> /\ paths = <<>> /\ flags_paths = <<>>)

\* C23 witness: the producer has exhausted its input and its last batch, a
\* partial one, waits in the batch channel behind a full one.
C23_Witness ==
    /\ ProducerReturnedOk
    /\ Len(batch_channel) = 2
    /\ Len(batch_channel[1].paths) = flags.batch_size
    /\ Len(batch_channel[2].paths) < flags.batch_size

\* The components of a path, the first one being a path of the command line.
RECURSIVE Components(_)
Components(p) == IF p < 10 THEN <<p>> ELSE Append(Components(p \div 10), p % 10)

\* The place of a path in the walk: the position of its first component on
\* the command line, then its other components.
WalkKey(p) ==
    LET c == Components(p)
    IN  <<CHOOSE i \in DOMAIN flags.path : flags.path[i] = c[1]>> \o Tail(c)

\* a comes before b in the depth-first walk that visits entries in sorted
\* order.
LexLess(a, b) ==
    \E k \in 1 .. Len(b) :
        /\ \A i \in 1 .. k - 1 : i <= Len(a) /\ a[i] = b[i]
        /\ \/ Len(a) = k - 1
           \/ (k <= Len(a) /\ a[k] < b[k])

Before(p, q) == LexLess(WalkKey(p), WalkKey(q))

\* C24: the items are pulled in the order of the depth-first walk of the
\* command line that visits the entries of a directory in sorted order: an
\* item pulled earlier comes before an item pulled later and before every path
\* still on the stack, the stack pops in that order, and the order indices
\* of the responses follow it.
C24_DepthFirstOrder ==
    /\ \A i, j \in 1 .. Len(pulled) :
            i < j => Before(pulled[i].path, pulled[j].path)
    /\ \A i \in 1 .. Len(pulled) : \A k \in 1 .. Len(flags_paths) :
            Before(pulled[i].path, flags_paths[k])
    /\ \A k, l \in 1 .. Len(flags_paths) :
            k < l => Before(flags_paths[l], flags_paths[k])
    /\ \A r, q \in AllResponses :
            r.order < q.order => Before(r.path, q.path)

\* C24 witness: the second path of the command line is a directory whose
\* first entry is a directory: its two entries were pulled before the second
\* entry of the directory above, and after the first path of the command line.
C24_Witness ==
    /\ flags.path = <<2, 1>>
    /\ Len(pulled) = 4
    /\ [i \in 1 .. 4 |-> pulled[i].path] = <<2, 111, 112, 12>>

\* C25 (as claimed): the responses held in the reorder buffer are bounded by
\* a function of the number of workers and the batch size alone: no more than
\* the result channel holds plus the items the workers are processing.
C25_BoundedReorder ==
    Cardinality(DOMAIN reorder.todo) <=
        ResultCapacity + flags.num_tasks * flags.batch_size

\* No task has reported an error: no item made the producer return one and
\* no model run failed.
NoErrorReported ==
    /\ failed = {}
    /\ \A i \in 1 .. Len(pulled) : pulled[i].kind \notin FatalKinds

\* Every task has ended, and when none reported an error each returned
\* normally, both channels are closed and empty, and every item pulled has
\* been emitted.
Terminated ==
    /\ cpc = "done"
    /\ Ended(ppc)
    /\ \A w \in Workers : Ended(wpc[w])
    /\ NoErrorReported =>
            /\ ppc = "done"
            /\ \A w \in Workers : wpc[w] = "done"
            /\ exit_code = 0
            /\ batch_channel = <<>>
            /\ result_channel = <<>>
            /\ flags_paths = <<>>
            /\ Len(responses) = Len(pulled)

\* C26: under fair scheduling the pipeline terminates: it never stays in a
\* state where tasks wait on a full or an empty channel while work remains,
\* and when no task reports an error the producer exhausts its input, the
\* batch channel closes and drains, every worker exits, the result channel
\* closes and the collector exits.
C26_Termination == <>Terminated

\* C26 witness: a run without an error has ended: two items went through the
\* model, every task returned and the exit code is 0.
C26_Witness ==
    /\ Terminated
    /\ NoErrorReported
    /\ Len(responses) = 2
    /\ \A i \in 1 .. 2 : responses[i].is_dl

\* ---------------------------------------------- properties: the extractor

\* The six byte values the specification lists as whitespace.
SixWhitespace == {32, 9, 13, 10, 12, 11}

\* extract has returned Features or a ruling for a non-empty input.
Extracted ==
    /\ call.fn \in {"identify_content", "identify_file"}
    /\ ret.tag \in {"Features", "Ruled"}
    /\ call.file.len > 0

\* The first and the last byte of s outside W, and none when there is none.
FirstOutside(s, W) ==
    LET K == {k \in 1 .. Len(s) : s[k] \notin W}
    IN  IF K = {} THEN None ELSE Some(s[Min(K)])

LastOutside(s, W) ==
    LET K == {k \in 1 .. Len(s) : s[k] \notin W}
    IN  IF K = {} THEN None ELSE Some(s[Max(K)])

\* The number of bytes of s from its first byte outside W on.
LenFromFirstOutside(s, W) ==
    LET K == {k \in 1 .. Len(s) : s[k] \notin W}
    IN  IF K = {} THEN 0 ELSE Len(s) + 1 - Min(K)

\* Well-formed UTF-8 for sequences of the bytes of FileBytes: an ASCII byte,
\* or 0xC3 followed by 0xA9.
WellFormed(s) ==
    \A k \in 1 .. Len(s) :
        \/ s[k] < 128
        \/ s[k] = 195 /\ k < Len(s) /\ s[k + 1] = 169
        \/ s[k] = 169 /\ k > 1 /\ s[k - 1] = 195

\* C11: for a non-empty input, the vector the extractor packs has the length
\* beg_size + mid_size + end_size + (32 with offset probes, else 0), the bands
\* of split_features are a partition of it with nothing left over, and every
\* entry is a byte value or padding_token.
C11_FeatureVector ==
    Extracted =>
        LET cfg == call.config
            v == ret.features
            s == SplitFeatures(cfg, v)
        IN  /\ Len(v) = cfg.beg_size + cfg.mid_size + cfg.end_size
                         + (IF cfg.use_inputs_at_offsets THEN 32 ELSE 0)
            /\ Len(s.beg) = cfg.beg_size
            /\ Len(s.mid) = cfg.mid_size
            /\ Len(s.end) = cfg.end_size
            /\ Len(s.off) = (IF cfg.use_inputs_at_offsets THEN 4 ELSE 0)
            /\ \A k \in 1 .. Len(s.off) : Len(s.off[k][2]) = 8
            /\ s.rest = <<>>
            /\ v = s.beg \o s.mid \o s.end
                    \o Concat([k \in 1 .. Len(s.off) |-> s.off[k][2]])
            /\ \A i \in 1 .. Len(v) : v[i] \in 0 .. 255 \/ v[i] = cfg.padding_token

\* C11 witness: Features with offset probes for an input that reaches the last
\* probe, holding bytes and padding.
C11_Witness ==
    /\ Extracted
    /\ ret.tag = "Features"
    /\ call.config.use_inputs_at_offsets
    /\ call.file.len = 38920
    /\ ret.features[Len(ret.features)] # call.config.padding_token
    /\ \E i \in 1 .. Len(ret.features) : ret.features[i] = call.config.padding_token

\* C12: an input of length 0 yields Ruled(Empty), returned after the length
\* alone: no read_at is issued and the model is not run.  (Reading the length
\* of a file can fail; nothing else can go wrong.)
C12_EmptyRuling ==
    (call.fn = "identify_content" /\ call.file.len = 0 /\ ret # NoRet) =>
        /\ ret.tag \in {"Ruled", "FileType", "Err"}
        /\ ret.ops = <<"length">>
        /\ ret.tag = "Err" => call.adapter = "file"
        /\ ret.tag = "Ruled" => ret.content_type = "empty" /\ ret.reads = <<>>
        /\ ret.tag = "FileType" => ret.file_type = FileTypeRuled("empty", None)

\* C12 witness: identify_content has returned for an input of length 0.
C12_Witness ==
    /\ call.fn = "identify_content"
    /\ call.file.len = 0
    /\ ret.tag = "FileType"
    /\ ret.file_type.variant = "Ruled"

\* C13: an input of length at least 1 and below min_file_size_for_dl made of
\* whitespace only yields Ruled(Txt), never Features; and the bytes stripped
\* are exactly the six: the beginning band starts with the first byte of the
\* first block outside the six, and the end band ends with the last byte of
\* the last block outside the six (padding when there is none).
C13_WhitespaceOnly ==
    Extracted =>
        LET cfg == call.config
            v == ret.features
            first == FirstOutside(ret.first_block, SixWhitespace)
            last == LastOutside(ret.first_block, SixWhitespace)
        IN  /\ (/\ call.file.len < cfg.min_file_size_for_dl
                /\ \A k \in 1 .. Len(ret.first_block) :
                        ret.first_block[k] \in SixWhitespace)
                => (ret.tag = "Ruled" /\ ret.content_type = "txt")
            /\ v[1] = (IF first.some THEN first.value ELSE cfg.padding_token)
            /\ call.file.len <= cfg.block_size =>
                    v[cfg.beg_size + cfg.mid_size + cfg.end_size] =
                        (IF last.some THEN last.value ELSE cfg.padding_token)

\* C13 witness: a ruling for an input that is one vertical tab.
C13_Witness ==
    /\ Extracted
    /\ call.file.head = <<11>>
    /\ call.file.len = 1
    /\ call.config.min_file_size_for_dl = 2
    /\ ret.tag = "Ruled"
    /\ ret.content_type = "txt"

\* C14: for a non-empty input the extractor returns Features exactly when the
\* element at index min_file_size_for_dl - 1 of the packed vector is not
\* padding_token, that is when the first block stripped of its leading
\* whitespace holds at least min_file_size_for_dl bytes; otherwise it returns
\* Ruled(Txt) when the first block is valid UTF-8 and Ruled(Unknown) when not.
C14_MinFileSize ==
    Extracted =>
        LET cfg == call.config
            min == cfg.min_file_size_for_dl
        IN  /\ ret.tag = "Features" <=> ret.features[min] # cfg.padding_token
            /\ ret.tag = "Features" <=>
                    LenFromFirstOutside(ret.first_block, SixWhitespace) >= min
            /\ ret.tag = "Ruled" =>
                    ret.content_type =
                        (IF WellFormed(ret.first_block) THEN "txt" ELSE "unknown")

\* C14 witness: a ruling Unknown for a short input that is not valid UTF-8.
C14_Witness ==
    /\ Extracted
    /\ ret.tag = "Ruled"
    /\ ret.content_type = "unknown"
    /\ ~WellFormed(ret.first_block)

\* C15: copy_features(dst, src, align) copies L = min(|dst|, |src|) elements
\* to dst[(|dst|-L)*align/2 ..] from src[(|src|-L)*align/2 ..] and leaves the
\* other slots of dst alone: align 0 is left-aligned, align 2 right-aligned
\* with the tail of the source, align 1 centred with a left padding equal to
\* the right one or one less.
C15_CopyFeatures ==
    (call.fn = "copy_features" /\ ret # NoRet) =>
        LET d == Len(call.dst)
            n == Len(call.src)
            L == IF d <= n THEN d ELSE n
            ds == ((d - L) * call.align) \div 2
            ss == ((n - L) * call.align) \div 2
            out == ret.dst
        IN  /\ Len(out) = d
            /\ \A i \in 1 .. d :
                    out[i] = IF i > ds /\ i <= ds + L
                             THEN call.src[ss + (i - ds)] ELSE call.dst[i]
            /\ Cardinality({i \in 1 .. d : out[i] # call.dst[i]}) = L
            /\ call.align = 0 =>
                    \A i \in 1 .. L : out[i] = call.src[i]
            /\ call.align = 2 =>
                    \A i \in 1 .. L : out[d + 1 - i] = call.src[n + 1 - i]
            /\ call.align = 1 =>
                    (ds = d - L - ds \/ ds = d - L - ds - 1)

\* C15 witness: a centred copy of one byte into a band of four slots.
C15_Witness ==
    /\ call.fn = "copy_features"
    /\ call.align = 1
    /\ Len(call.dst) = 4
    /\ Len(call.src) = 1
    /\ ret.tag = "Ok"
    /\ ret.dst[2] # 256

C17_Dispatch ==
    (call.fn = "identify_file" /\ ret # NoRet) =>
        /\ call.kind = "symlink" =>
                /\ ret.tag = "FileType"
                /\ ret.file_type.variant = "Symlink"
                /\ ret.ops = <<"symlink_metadata">>
        /\ call.kind = "dir" =>
                /\ ret.tag = "FileType"
                /\ ret.file_type.variant = "Directory"
                /\ ret.ops = <<"symlink_metadata">>
        /\ call.kind \in {"stat_err", "open_err"} => ret.tag = "Err"

\* C17 witness: a symbolic link has been identified.
C17_Witness ==
    /\ call.fn = "identify_file"
    /\ call.kind = "symlink"
    /\ ret.tag = "FileType"

\* C18 (as claimed): read_at fills the buffer from the offset, or returns an
\* error when fewer bytes than the buffer holds follow the offset; it never
\* crashes.
C18_ReadAtShortRead ==
    (call.fn = "read_at" /\ ret # NoRet) =>
        LET available == IF call.offset >= call.file.len
                         THEN 0 ELSE call.file.len - call.offset
        IN  IF call.n > available
            THEN ret.tag = "Err"
            ELSE /\ ret.tag \in {"Ok", "Err"}
                 /\ ret.tag = "Ok" =>
                        ret.buffer = [k \in 1 .. call.n |->
                                        call.file.head[call.offset + k]]

\* The read_at calls the extractor has issued in the call, the last one being
\* the one that failed when one failed.
IssuedReads ==
    IF "reads" \in DOMAIN ret THEN ret.reads
    ELSE IF "extracted" \in DOMAIN ret THEN ret.extracted.reads
    ELSE <<>>

\* C27: for an input of at least one byte, every read_at the extractor issues
\* lies within the input: the first block of min(block_size, file_len) bytes
\* at 0, the last block of as many at file_len - min(block_size, file_len),
\* the middle window of min(mid_size, file_len) bytes at
\* (file_len - mid_len) / 2, and a probe of 8 bytes at an offset O only when
\* O + 8 <= file_len; no offset is negative and no read crashes.
C27_ReadsInBounds ==
    (call.fn \in {"identify_content", "identify_file"} /\ ret # NoRet) =>
        LET reads == IssuedReads
            file_len == call.file.len
            cfg == call.config
            block == Min({cfg.block_size, file_len})
            mid_len == Min({cfg.mid_size, file_len})
        IN  /\ ret.tag # "Panic" \/ call.fn = "identify_file"
            /\ \A k \in 1 .. Len(reads) :
                    /\ file_len >= 1
                    /\ reads[k].offset >= 0
                    /\ reads[k].offset + reads[k].n <= file_len
                    /\ k = 1 => reads[k] = [n |-> block, offset |-> 0]
                    /\ k = 2 => reads[k] = [n |-> block, offset |-> file_len - block]
                    /\ k = 3 => /\ reads[k].n = mid_len
                                /\ 2 * reads[k].offset \in
                                        {file_len - mid_len, file_len - mid_len - 1}
                    /\ k > 3 => /\ cfg.use_inputs_at_offsets
                                /\ reads[k].n = ProbeSize
                                /\ \E i \in 1 .. Len(ProbeOffsets) :
                                        reads[k].offset = ProbeOffsets[i]

\* C27 witness: an input long enough for the first probe but not for all has
\* been read to the end, middle window and probe included.
C27_Witness ==
    /\ call.fn = "identify_content"
    /\ ret.tag \in {"Features", "Ruled"}
    /\ call.file.len >= ProbeOffsets[1] + ProbeSize
    /\ call.file.len < ProbeOffsets[4] + ProbeSize
    /\ Len(IssuedReads) = 4
    /\ call.config.mid_size > 0

\* C28 (as claimed): in the earlier extractor every read_at lies within the
\* input, whatever its length and the whitespace it starts and ends with: the
\* middle read of BUFFER_SIZE bytes of the large branch ends at or before the
\* end of the input, and the offset of it is computed without underflow.
C28_OldReadsInBounds ==
    (call.fn = "old_extract_features" /\ ret # NoRet) =>
        /\ ret.tag # "Panic"
        /\ \A k \in 1 .. Len(ret.reads) :
                /\ ret.reads[k].offset >= 0
                /\ ret.reads[k].offset + ret.reads[k].n <= call.file.len

\* C29 (as claimed): whenever identify_file goes on to open the path and
\* identify its content, the path is a regular file, so the debug assertion
\* metadata.is_file() holds for every kind of path whose stat succeeds.
C29_OpenOnlyRegularFiles ==
    (call.fn = "identify_file" /\ ret # NoRet) =>
        /\ ret.tag # "Panic"
        /\ (\E i \in 1 .. Len(ret.ops) : ret.ops[i] = "open") =>
                call.kind \in {"file", "open_err"}

\* ------------------------------------------ properties: the post-classifier

\* The model was run for the result.
ModelRan(ft) ==
    \/ ft.variant = "Inferred"
    \/ ft.variant = "Ruled" /\ ft.overruled.some

\* The InferredType of a result the model was run for: the raw label and score.
RawOf(ft) == IF ft.variant = "Inferred" THEN ft.inferred ELSE ft.overruled.value

\* The result reports a final type different from the raw one.
Overruled(ft) == ft.variant = "Ruled" /\ ft.overruled.some

\* C7 (as claimed): if the raw label r has a score below thresholds[r], the final
\* type is txt when r is text and unknown otherwise, whatever overwrite_map[r]
\* is.  (The FileType of file.rs records no reason.)
C7_ThresholdRule ==
    ModelRan(file_type) =>
        LET raw == RawOf(file_type)
        IN  raw.score < config.thresholds[raw.content_type] =>
                FileTypeContentType(file_type) =
                    IF is_text[raw.content_type] THEN "txt" ELSE "unknown"

\* C8 (as claimed): if the raw label r has a score of at least thresholds[r], the
\* final type is overwrite_map[r]: an overruling when it differs from r, and the
\* plain inferred r when it does not.
C8_OverwriteRule ==
    ModelRan(file_type) =>
        LET raw == RawOf(file_type)
            r == raw.content_type
        IN  raw.score >= config.thresholds[r] =>
                /\ FileTypeContentType(file_type) = config.overwrite_map[r]
                /\ Overruled(file_type) <=> config.overwrite_map[r] # r

\* C9 (as claimed): every Ruled result, from the extractor or from the
\* post-classifier, reports the score 1.0.
C9_RuledScoreIsOne ==
    file_type.variant = "Ruled" => FileTypeScore(file_type) = MaxScore

\* The highest score of the row.
MaxOf(row) == CHOOSE m \in Scores : (\E i \in Labels : row[i] = m) /\ \A i \in Labels : row[i] <= m

\* The labels that have the highest score of the row.
ArgMaxSet(row) == {i \in Labels : row[i] = MaxOf(row)}

\* C10 (as claimed): the raw label is the one of the lowest index among those
\* with the highest score.
C10_EarliestMax ==
    ModelRan(file_type) =>
        RawOf(file_type).content_type = LabelContentType(Min(ArgMaxSet(scores)))

\* C10 (amended): the raw label is the one of the highest index among those with
\* the highest score, reported with that score: a later score replaces best
\* whenever it is greater or equal.
C10_LatestMax ==
    ModelRan(file_type) =>
        /\ RawOf(file_type).content_type = LabelContentType(Max(ArgMaxSet(scores)))
        /\ RawOf(file_type).score = MaxOf(scores)

\* C10 witness: the model was run on a row where several labels share the
\* highest score.
C10_Witness == ModelRan(file_type) /\ Cardinality(ArgMaxSet(scores)) >= 2

\* C30 (as claimed): every FileType::Inferred the post-classifier returns has
\* a score of at least the threshold of its content type; a score below the
\* threshold is never reported as a plain Inferred.
C30_InferredAboveThreshold ==
    file_type.variant = "Inferred" =>
        file_type.inferred.score >=
            config.thresholds[file_type.inferred.content_type]

====
